---- MODULE Spec2Model ----
(***************************************************************************)
(* Model of packages/hydrooj/src/handler/misc.ts: the user file handlers   *)
(* (FilesHandler.postUploadFile / postDeleteFiles), the download redirect  *)
(* (FSDownloadHandler.get) and the signed-link endpoint                    *)
(* (StorageHandler.get).                                                   *)
(*                                                                         *)
(* Strings are sequences of one-character tokens so that includes() and    *)
(* template concatenation are computed, not assumed.  A handler is split   *)
(* into one action per await: everything between two awaits is atomic.     *)
(***************************************************************************)
EXTENDS Integers, Sequences, FiniteSets, TLC

VARIABLES
    priv,        \* privileges of the acting principal (this.user.hasPriv / checkPriv)
    countLimit,  \* system.get('limit.user_files')
    byteLimit,   \* system.get('limit.user_files_size')
    ledger,      \* persisted _files of the acting principal (user.setById target)
    store,       \* storage collaborator: path -> size of the stored object
    req,         \* in-flight requests: handler position and this.user._files copy
    sizeSkew,    \* history: some getMeta reported a size other than the uploaded one
    track,       \* history: an upload followed by a delete with nothing in between
    started,     \* number of requests begun so far (bounds the concurrent runs)
    capacity,    \* history: an upload refused for count, a delete, the upload again
    effects,     \* history: the storage and ledger writes of the request in hand
    now,         \* Date.now()
    users,       \* identity store: id -> privileges of each existing principal
    oplog,       \* audit events recorded by oplog.log
    links,       \* signed links handed out by storage.signDownloadLink
    fetched,     \* targets whose bytes were read with storage.get
    resp,        \* the last response of the download and storage handlers
    expiredLink  \* history: one link that was rejected as expired

fileVars == <<priv, countLimit, byteLimit, ledger, store, req, sizeSkew, track, started,
              capacity, effects>>
accessVars == <<now, users, oplog, links, fetched, resp, expiredLink>>
vars == <<priv, countLimit, byteLimit, ledger, store, req, sizeSkew, track, started, capacity,
          effects,
          now, users, oplog, links, fetched, resp, expiredLink>>

----------------------------------------------------------------------------
(* Bounds *)

MaxSize == 1
MaxCountLimit == 2
MaxByteLimit == 3
MaxRequests == 2
MaxTime == 2
LinkLifetime == 1

Reqs == {"r1", "r2"}
Sizes == 0 .. MaxSize

(* this.user._id of the principal whose files the file handlers manage *)
Uid == 1

PRIV_CREATE_FILE == "PRIV_CREATE_FILE"
PRIV_UNLIMITED_QUOTA == "PRIV_UNLIMITED_QUOTA"
Privs == {PRIV_CREATE_FILE, PRIV_UNLIMITED_QUOTA}

----------------------------------------------------------------------------
(* Strings *)

Empty == << >>
NameA == <<"a", ".", "t">>
NameR == <<"r">>
NameSlash == <<"a", "/", "b">>
NameDots == <<".", ".", "b">>
NameC == <<"c">>
NameUp == <<".", ".", "/", "2", "/", "a", ".", "t">>

(* filename parameter of an upload (Types.Name, optional: Empty when absent) *)
FilenameParams == {Empty, NameA, NameDots}
(* file.originalFilename of the multipart part *)
OriginalFilenames == {Empty, NameSlash}
(* results of String.random(16): alphanumeric *)
RandomNames == {NameR}
(* files parameter of a delete (Types.Array) *)
DeleteLists == {<<NameA>>, <<NameR>>, <<NameA, NameR>>, <<NameDots>>, <<NameUp>>}

(* s.includes(sub) *)
Includes(s, sub) ==
    \E i \in 1 .. (Len(s) - Len(sub) + 1) : SubSeq(s, i, i + Len(sub) - 1) = sub

DigitChars == <<"0", "1", "2", "3", "4", "5", "6", "7", "8", "9">>

(* `${n}` of a non-negative integer: its decimal digits *)
RECURSIVE Digits(_)
Digits(n) ==
    IF n < 10 THEN <<DigitChars[n + 1]>>
    ELSE Digits(n \div 10) \o <<DigitChars[(n % 10) + 1]>>

(* `user/${uid}/${name}` *)
StoragePath(uid, name) == <<"user", "/">> \o Digits(uid) \o <<"/">> \o name

----------------------------------------------------------------------------
(* The checks of postUploadFile *)

RECURSIVE SumSizes(_)
SumSizes(files) ==
    IF files = << >> THEN 0 ELSE Head(files).size + SumSizes(Tail(files))

FileLimitReached_Gt(files, limit) == Len(files) > limit

(* line 59: (this.user._files?.length || 0) >= system.get('limit.user_files') *)
FileLimitReached(files, limit) == Len(files) >= limit

(* lines 65-66: sum of sizes + f.size >= system.get('limit.user_files_size') *)
SizeLimitReached(files, fsize, limit) == SumSizes(files) + fsize >= limit

(* line 69: filename || file.originalFilename || String.random(16) *)
DeriveFilename(filename, original, random) ==
    IF filename # Empty THEN filename
    ELSE IF original # Empty THEN original
    ELSE random

BadFilename_SlashOnly(name) == Includes(name, <<"/">>)

(* line 70 *)
BadFilename(name) == Includes(name, <<"/">>) \/ Includes(name, <<".", ".">>)

FileExists_Never(files, name) == FALSE

(* line 71 *)
FileExists(files, name) == \E i \in 1 .. Len(files) : files[i].name = name

FilterFiles_FirstName(files, names) ==
    SelectSeq(files, LAMBDA f : ~(names # << >> /\ names[1] = f.name))

FilterFiles_KeepNamed(files, names) ==
    SelectSeq(files, LAMBDA f : \E k \in 1 .. Len(names) : names[k] = f.name)

(* line 85: this.user._files.filter((i) => !files.includes(i.name)) *)
FilterFiles(files, names) ==
    SelectSeq(files, LAMBDA f : ~(\E k \in 1 .. Len(names) : names[k] = f.name))

(* line 84: files.map((t) => `user/${this.user._id}/${t}`) *)
DeletePaths(uid, names) == [k \in 1 .. Len(names) |-> StoragePath(uid, names[k])]

----------------------------------------------------------------------------
(* Errors thrown by the handlers *)

NoError == [class |-> "none", msg |-> ""]
ErrPrivilege == [class |-> "PrivilegeError", msg |-> "PRIV_CREATE_FILE"]
ErrFileLimit == [class |-> "ForbiddenError", msg |-> "File limit exceeded."]
ErrNoFile == [class |-> "ValidationError", msg |-> "file"]
ErrSizeLimit == [class |-> "ForbiddenError", msg |-> "File size limit exceeded."]
ErrBadFilename == [class |-> "ValidationError", msg |-> "Bad filename"]
ErrFileExists == [class |-> "BadRequestError", msg |-> "file exists"]
ErrUploadFailed == [class |-> "Error", msg |-> "Upload failed"]
ErrStorage == [class |-> "Error", msg |-> "storage"]

HasPriv(privs, p) == p \in privs

UploadCheck_NoBypass(files, privs, climit, blimit, hasFile, fsize, name) ==
    IF ~HasPriv(privs, PRIV_CREATE_FILE) THEN ErrPrivilege
    ELSE IF FileLimitReached(files, climit) THEN ErrFileLimit
    ELSE IF ~hasFile THEN ErrNoFile
    ELSE IF SizeLimitReached(files, fsize, blimit) THEN ErrSizeLimit
    ELSE IF BadFilename(name) THEN ErrBadFilename
    ELSE IF FileExists(files, name) THEN ErrFileExists
    ELSE NoError

(* lines 58-71: the first rejection that applies, NoError when none does *)
UploadCheck(files, privs, climit, blimit, hasFile, fsize, name) ==
    IF ~HasPriv(privs, PRIV_CREATE_FILE) THEN ErrPrivilege
    ELSE IF FileLimitReached(files, climit) /\ ~HasPriv(privs, PRIV_UNLIMITED_QUOTA)
        THEN ErrFileLimit
    ELSE IF ~hasFile THEN ErrNoFile
    ELSE IF SizeLimitReached(files, fsize, blimit) /\ ~HasPriv(privs, PRIV_UNLIMITED_QUOTA)
        THEN ErrSizeLimit
    ELSE IF BadFilename(name) THEN ErrBadFilename
    ELSE IF FileExists(files, name) THEN ErrFileExists
    ELSE NoError

----------------------------------------------------------------------------
(* Storage collaborator *)

NoObjects == [p \in {} |-> 0]
Null == [null |-> TRUE]

(* storage.put(path, file): the object at path now has the file's size *)
StoragePut(s, path, size) ==
    [p \in DOMAIN s \cup {path} |-> IF p = path THEN size ELSE s[p]]

(* storage.getMeta(path): null when there is no such object *)
StorageGetMeta(s, path) ==
    IF path \in DOMAIN s THEN [size |-> s[path]] ELSE Null

(* storage.del(paths) having removed the objects at `gone` *)
StorageDel(s, gone) == [p \in DOMAIN s \ gone |-> s[p]]

Range(seq) == {seq[k] : k \in 1 .. Len(seq)}

Names(files) == {files[i].name : i \in 1 .. Len(files)}

SlashOrDotDot(name) ==
    \E i \in 1 .. Len(name) :
        name[i] = "/" \/ (i < Len(name) /\ name[i] = "." /\ name[i + 1] = ".")

----------------------------------------------------------------------------
(* Requests *)

IdleReq ==
    [op |-> "idle", pc |-> "done", files |-> << >>, filename |-> Empty,
     hasFile |-> FALSE, size |-> 0, names |-> << >>,
     del |-> "none", set |-> "none", error |-> NoError]

(* line 76: the record pushed to this.user._files *)
FileRecord(name, meta) == [_id |-> name, name |-> name, size |-> meta.size]

PostUploadFile_Stale(r, filename, hasFile, original, fsize, random) ==
    /\ req[r].pc = "done"
    /\ LET name == DeriveFilename(filename, original, random)
           err == UploadCheck(req[r].files, priv, countLimit, byteLimit, hasFile,
                              fsize, name)
       IN req' = [req EXCEPT ![r] =
                [op |-> "upload", pc |-> IF err = NoError THEN "put" ELSE "done",
                 files |-> req[r].files, filename |-> name, hasFile |-> hasFile,
                 size |-> fsize, names |-> << >>, del |-> "none", set |-> "none",
                 error |-> err]]
    /\ UNCHANGED <<priv, countLimit, byteLimit, ledger, store, sizeSkew>>

(* postUploadFile, lines 58-72: this.user is the principal as loaded for this
   request; the checks run without an await; storage.put is then called. *)
PostUploadFile(r, filename, hasFile, original, fsize, random) ==
    /\ req[r].pc = "done"
    /\ LET name == DeriveFilename(filename, original, random)
           err == UploadCheck(ledger, priv, countLimit, byteLimit, hasFile, fsize, name)
       IN req' = [req EXCEPT ![r] =
                [op |-> "upload", pc |-> IF err = NoError THEN "put" ELSE "done",
                 files |-> ledger, filename |-> name, hasFile |-> hasFile,
                 size |-> fsize, names |-> << >>, del |-> "none", set |-> "none",
                 error |-> err]]
    /\ UNCHANGED <<priv, countLimit, byteLimit, ledger, store, sizeSkew>>

(* line 72: storage.put completes *)
UploadPut(r) ==
    /\ req[r].op = "upload" /\ req[r].pc = "put"
    /\ store' = StoragePut(store, StoragePath(Uid, req[r].filename), req[r].size)
    /\ req' = [req EXCEPT ![r].pc = "getMeta"]
    /\ UNCHANGED <<priv, countLimit, byteLimit, ledger, sizeSkew>>

(* line 72: storage.put throws *)
UploadPutFail(r) ==
    /\ req[r].op = "upload" /\ req[r].pc = "put"
    /\ req' = [req EXCEPT ![r].pc = "done", ![r].error = ErrStorage]
    /\ UNCHANGED <<priv, countLimit, byteLimit, ledger, store, sizeSkew>>

UploadGetMeta_WriteOnFail(r, meta) ==
    /\ req[r].op = "upload" /\ req[r].pc = "getMeta"
    /\ IF meta = Null
       THEN /\ req' = [req EXCEPT ![r].pc = "done", ![r].error = ErrUploadFailed]
            /\ ledger' = Append(req[r].files, [_id |-> req[r].filename,
                                               name |-> req[r].filename, size |-> 0])
            /\ UNCHANGED sizeSkew
       ELSE /\ req' = [req EXCEPT ![r].pc = "setById",
                         ![r].files = Append(@, FileRecord(req[r].filename, meta))]
            /\ sizeSkew' = (sizeSkew \/ meta.size # req[r].size)
            /\ UNCHANGED ledger
    /\ UNCHANGED <<priv, countLimit, byteLimit, store>>

(* lines 73-77: getMeta answers; without meta the upload fails, with it the
   record is pushed to this.user._files and user.setById is called. *)
UploadGetMeta(r, meta) ==
    /\ req[r].op = "upload" /\ req[r].pc = "getMeta"
    /\ IF meta = Null
       THEN /\ req' = [req EXCEPT ![r].pc = "done", ![r].error = ErrUploadFailed]
            /\ UNCHANGED sizeSkew
       ELSE /\ req' = [req EXCEPT ![r].pc = "setById",
                         ![r].files = Append(@, FileRecord(req[r].filename, meta))]
            /\ sizeSkew' = (sizeSkew \/ meta.size # req[r].size)
    /\ UNCHANGED <<priv, countLimit, byteLimit, ledger, store>>

UploadSetById_Merge(r) ==
    /\ req[r].op = "upload" /\ req[r].pc = "setById"
    /\ ledger' = Append(ledger, req[r].files[Len(req[r].files)])
    /\ req' = [req EXCEPT ![r].pc = "done"]
    /\ UNCHANGED <<priv, countLimit, byteLimit, store, sizeSkew>>

UploadSetById_NewFirst(r) ==
    /\ req[r].op = "upload" /\ req[r].pc = "setById"
    /\ ledger' = <<req[r].files[Len(req[r].files)]>>
                    \o SubSeq(req[r].files, 1, Len(req[r].files) - 1)
    /\ req' = [req EXCEPT ![r].pc = "done"]
    /\ UNCHANGED <<priv, countLimit, byteLimit, store, sizeSkew>>

(* line 77: user.setById completes, then this.back() *)
UploadSetById(r) ==
    /\ req[r].op = "upload" /\ req[r].pc = "setById"
    /\ ledger' = req[r].files
    /\ req' = [req EXCEPT ![r].pc = "done"]
    /\ UNCHANGED <<priv, countLimit, byteLimit, store, sizeSkew>>

(* postDeleteFiles, lines 83-85: both calls are made before Promise.all waits *)
PostDeleteFiles(r, names) ==
    /\ req[r].pc = "done"
    /\ req' = [req EXCEPT ![r] =
            [op |-> "delete", pc |-> "run", files |-> ledger, filename |-> Empty,
             hasFile |-> FALSE, size |-> 0, names |-> names,
             del |-> "pending", set |-> "pending", error |-> NoError]]
    /\ UNCHANGED <<priv, countLimit, byteLimit, ledger, store, sizeSkew>>

Settled(d, s) == IF d # "pending" /\ s # "pending" THEN "done" ELSE "run"

DeleteStorageDel_FirstOnly(r) ==
    /\ req[r].op = "delete" /\ req[r].del = "pending"
    /\ store' = StorageDel(store, {DeletePaths(Uid, req[r].names)[1]})
    /\ req' = [req EXCEPT ![r].del = "ok", ![r].pc = Settled("ok", req[r].set)]
    /\ UNCHANGED <<priv, countLimit, byteLimit, ledger, sizeSkew>>

(* line 84: storage.del resolves, every named object removed *)
DeleteStorageDel(r) ==
    /\ req[r].op = "delete" /\ req[r].del = "pending"
    /\ store' = StorageDel(store, Range(DeletePaths(Uid, req[r].names)))
    /\ req' = [req EXCEPT ![r].del = "ok", ![r].pc = Settled("ok", req[r].set)]
    /\ UNCHANGED <<priv, countLimit, byteLimit, ledger, sizeSkew>>

(* line 84: storage.del rejects, having removed only the objects at `gone` *)
DeleteStorageDelFail(r, gone) ==
    /\ req[r].op = "delete" /\ req[r].del = "pending"
    /\ gone \subseteq Range(DeletePaths(Uid, req[r].names))
    /\ store' = StorageDel(store, gone)
    /\ req' = [req EXCEPT ![r].del = "failed", ![r].error = ErrStorage,
                          ![r].pc = Settled("failed", req[r].set)]
    /\ UNCHANGED <<priv, countLimit, byteLimit, ledger, sizeSkew>>

DeleteSetById_AfterDel(r) ==
    /\ req[r].op = "delete" /\ req[r].set = "pending" /\ req[r].del = "ok"
    /\ ledger' = FilterFiles(req[r].files, req[r].names)
    /\ req' = [req EXCEPT ![r].set = "done", ![r].pc = Settled(req[r].del, "done")]
    /\ UNCHANGED <<priv, countLimit, byteLimit, store, sizeSkew>>

(* line 85: user.setById completes *)
DeleteSetById(r) ==
    /\ req[r].op = "delete" /\ req[r].set = "pending"
    /\ ledger' = FilterFiles(req[r].files, req[r].names)
    /\ req' = [req EXCEPT ![r].set = "done", ![r].pc = Settled(req[r].del, "done")]
    /\ UNCHANGED <<priv, countLimit, byteLimit, store, sizeSkew>>

----------------------------------------------------------------------------
(* Steps of one request *)

NoResp == [handler |-> "none"]
NoLink == [target |-> Empty, filename |-> Empty, expire |-> 0, secret |-> Empty]
NoTrack == [stage |-> "none", before |-> << >>, name |-> Empty]
NoCapacity == [stage |-> "none", full |-> << >>, names |-> << >>, base |-> << >>,
               name |-> Empty]

InitAccessIdle ==
    /\ now = 0
    /\ users = [u \in {} |-> {}]
    /\ oplog = {}
    /\ links = {}
    /\ fetched = {}
    /\ resp = NoResp
    /\ expiredLink = NoLink

Init ==
    /\ priv \in SUBSET Privs
    /\ countLimit \in 0 .. MaxCountLimit
    /\ byteLimit \in 0 .. MaxByteLimit
    /\ ledger = << >>
    /\ store = NoObjects
    /\ req = [r \in Reqs |-> IdleReq]
    /\ sizeSkew = FALSE
    /\ track = NoTrack
    /\ started = 0
    /\ capacity = NoCapacity
    /\ effects = << >>
    /\ InitAccessIdle

(* a request arrives, its filename parameter one of `filenames` *)
BeginWith(r, filenames) ==
    \/ \E filename \in filenames, original \in OriginalFilenames,
          fsize \in Sizes, random \in RandomNames :
            PostUploadFile(r, filename, TRUE, original, fsize, random)
    \/ \E filename \in filenames, random \in RandomNames :
            PostUploadFile(r, filename, FALSE, Empty, 0, random)
    \/ \E names \in DeleteLists : PostDeleteFiles(r, names)

Begin(r) == BeginWith(r, FilenameParams)

Step(r) ==
    \/ UploadPut(r)
    \/ UploadPutFail(r)
    \/ UploadGetMeta(r, StorageGetMeta(store, StoragePath(Uid, req[r].filename)))
    \/ UploadGetMeta(r, Null)
    \/ UploadSetById(r)
    \/ DeleteStorageDel(r)
    \/ \E gone \in SUBSET Range(DeletePaths(Uid, req[r].names)) :
            DeleteStorageDelFail(r, gone)
    \/ DeleteSetById(r)

----------------------------------------------------------------------------
(* Requests one at a time.  track follows an accepted upload that is
   directly followed by a delete of exactly the uploaded name, and a delete
   that is directly followed by a delete of the same names. *)

TrackNext(r) ==
    LET old == req[r]
        new == req'[r]
    IN  IF old.pc = "done" /\ new.op = "upload" /\ new.pc = "put"
            THEN [stage |-> "uploading", before |-> ledger, name |-> new.filename]
        ELSE IF new.op = "upload" /\ new.pc \in {"getMeta", "setById"}
            THEN track
        ELSE IF old.op = "upload" /\ old.pc = "setById" /\ new.pc = "done"
            THEN [track EXCEPT !.stage = "uploaded"]
        ELSE IF old.pc = "done" /\ new.op = "delete" /\ track.stage = "uploaded"
                /\ new.names = <<track.name>>
            THEN [track EXCEPT !.stage = "deleting"]
        ELSE IF new.op = "delete" /\ old.op = "delete" /\ old.set = "pending"
                /\ new.set = "done" /\ track.stage = "deleting"
            THEN [track EXCEPT !.stage = "deleted"]
        ELSE IF old.pc = "done" /\ old.op = "delete" /\ new.op = "delete"
                /\ new.names = old.names
            THEN [stage |-> "repeating", before |-> ledger, name |-> Empty]
        ELSE IF new.op = "delete" /\ old.op = "delete" /\ old.pc # "done"
                /\ track.stage \in {"deleting", "deleted", "repeating"}
            THEN track
        ELSE NoTrack

(* capacity follows an upload that only the count check stood against, the
   delete made right after it, and the upload of the same name made right
   after that delete. *)
CapacityNext(r) ==
    LET old == req[r]
        new == req'[r]
    IN  IF old.pc = "done" /\ new.op = "upload" /\ new.error = ErrFileLimit
                /\ new.hasFile /\ new.filename \notin Names(ledger)
                /\ ~SlashOrDotDot(new.filename)
            THEN [stage |-> "refused", full |-> ledger, names |-> << >>,
                  base |-> << >>, name |-> new.filename]
        ELSE IF old.pc = "done" /\ new.op = "delete" /\ capacity.stage = "refused"
            THEN [capacity EXCEPT !.stage = "deleting", !.names = new.names]
        ELSE IF old.op = "delete" /\ old.pc # "done" /\ capacity.stage = "deleting"
            THEN IF new.pc = "done" THEN [capacity EXCEPT !.stage = "freed"]
                 ELSE capacity
        ELSE IF old.pc = "done" /\ new.op = "upload" /\ capacity.stage = "freed"
                /\ new.filename = capacity.name /\ new.hasFile
            THEN [capacity EXCEPT !.stage = "again", !.base = ledger]
        ELSE IF old.op = "upload" /\ old.pc # "done" /\ capacity.stage = "again"
            THEN capacity
        ELSE NoCapacity

(* effects lists, in the order they were made, the writes of the request
   in hand: the storage.put and storage.del that returned and the
   user.setById that completed. *)
EffectsNext(r) ==
    LET old == req[r]
        new == req'[r]
        sofar == IF old.pc = "done" THEN << >> ELSE effects
    IN  IF old.op = "upload" /\ old.pc = "put" /\ new.pc = "getMeta"
            THEN Append(sofar, [call |-> "storage.put", store |-> store'])
        ELSE IF old.op = "upload" /\ old.pc = "setById" /\ new.pc = "done"
            THEN Append(sofar, [call |-> "user.setById", files |-> ledger'])
        ELSE IF old.op = "delete" /\ old.del = "pending" /\ new.del = "ok"
            THEN Append(sofar, [call |-> "storage.del", store |-> store'])
        ELSE IF old.op = "delete" /\ old.set = "pending" /\ new.set = "done"
            THEN Append(sofar, [call |-> "user.setById", files |-> ledger'])
        ELSE IF ledger' # ledger
            THEN Append(sofar, [call |-> "user.setById", files |-> ledger'])
        ELSE sofar

History(r) ==
    /\ track' = TrackNext(r)
    /\ capacity' = CapacityNext(r)
    /\ effects' = EffectsNext(r)
    /\ UNCHANGED started

Next ==
    \/ Begin("r1") /\ History("r1") /\ UNCHANGED accessVars
    \/ Step("r1") /\ History("r1") /\ UNCHANGED accessVars

Spec == Init /\ [][Next]_vars

(* The identity store completes a write it was asked for (line 85). *)
FairSpec ==
    Spec /\ WF_vars(DeleteSetById("r1") /\ History("r1") /\ UNCHANGED accessVars)

----------------------------------------------------------------------------
(* Requests one at a time of a principal that may create files, with one
   more filename to choose from, so that a third file can be asked for while
   two are held.  No check reads the limits of a principal with unlimited
   quota to any effect, so they are taken as 0 for it. *)

InitQuota ==
    /\ Init
    /\ HasPriv(priv, PRIV_CREATE_FILE)
    /\ HasPriv(priv, PRIV_UNLIMITED_QUOTA) => countLimit = 0 /\ byteLimit = 0

NextQuota ==
    \/ BeginWith("r1", FilenameParams \cup {NameC}) /\ History("r1")
            /\ UNCHANGED accessVars
    \/ Step("r1") /\ History("r1") /\ UNCHANGED accessVars

QuotaSpec == InitQuota /\ [][NextQuota]_vars

----------------------------------------------------------------------------
(* Requests one at a time with a storage collaborator that does what it is
   asked: put stores the object, getMeta finds it, del removes every object
   named. *)

StepReliable(r) ==
    \/ UploadPut(r)
    \/ UploadGetMeta(r, StorageGetMeta(store, StoragePath(Uid, req[r].filename)))
    \/ UploadSetById(r)
    \/ DeleteStorageDel(r)
    \/ DeleteSetById(r)

NextReliable ==
    \/ Begin("r1") /\ History("r1") /\ UNCHANGED accessVars
    \/ StepReliable("r1") /\ History("r1") /\ UNCHANGED accessVars

ReliableSpec == Init /\ [][NextReliable]_vars

----------------------------------------------------------------------------
(* Concurrent requests of one principal: any interleaving of the steps of
   up to MaxRequests requests, two of them in flight at a time.  The
   principal may already own a file that an earlier upload of it put there.
   No check reads the limits of a principal with unlimited quota to any
   effect, so they are taken as 0 for it. *)

InitConc ==
    /\ priv \in SUBSET Privs
    /\ countLimit \in 0 .. MaxCountLimit
    /\ byteLimit \in 0 .. MaxByteLimit
    /\ HasPriv(priv, PRIV_UNLIMITED_QUOTA) => countLimit = 0 /\ byteLimit = 0
    /\ \/ ledger = << >> /\ store = NoObjects
       \/ /\ UploadCheck(<< >>, priv, countLimit, byteLimit, TRUE, 1, NameA) = NoError
          /\ ledger = <<FileRecord(NameA, [size |-> 1])>>
          /\ store = StoragePut(NoObjects, StoragePath(Uid, NameA), 1)
    /\ req = [r \in Reqs |-> IdleReq]
    /\ sizeSkew = FALSE
    /\ track = NoTrack
    /\ started = 0
    /\ capacity = NoCapacity
    /\ effects = << >>
    /\ InitAccessIdle

(* a new request takes the first free slot *)
FreeSlot(r) == r = "r1" \/ req["r1"].pc # "done"

NextConc ==
    \/ \E r \in Reqs :
        /\ started < MaxRequests
        /\ FreeSlot(r)
        /\ Begin(r)
        /\ started' = started + 1
        /\ UNCHANGED <<track, capacity, effects>>
        /\ UNCHANGED accessVars
    \/ \E r \in Reqs : Step(r) /\ UNCHANGED <<track, started, capacity, effects>>
                         /\ UNCHANGED accessVars

ConcSpec == InitConc /\ [][NextConc]_vars

----------------------------------------------------------------------------
(* Signed links *)

(* builtinConfig.file.secret *)
FileSecret == <<"k">>

(* md5 as an ideal hash: distinct inputs have distinct digests *)
Md5(str) == <<"md5", ":">> \o str

(* `${target}/${expire}/${secret}` *)
LinkString(target, expire, secret) ==
    target \o <<"/">> \o Digits(expire) \o <<"/">> \o secret

(* LinkSigner.mint: the fingerprint the signer puts in a link *)
Mint(target, expire) == Md5(LinkString(target, expire, FileSecret))

Expected_NoExpire(target, expire) == Md5(target \o <<"/">> \o FileSecret)

(* line 122 *)
Expected(target, expire) == Md5(LinkString(target, expire, FileSecret))

Expired_Reversed(expire, at) == expire > at

(* line 123: expire < Date.now() *)
Expired(expire, at) == expire < at

(* a fingerprint with one character changed *)
Alter(secret) == [secret EXCEPT ![Len(secret)] = IF @ = "x" THEN "y" ELSE "x"]

(* storage.signDownloadLink(target, filename, false, 'user') at time `at` *)
SignDownloadLink(target, filename, at) ==
    [target |-> target, filename |-> filename, expire |-> at + LinkLifetime,
     secret |-> Mint(target, at + LinkLifetime)]

(* storage.get(target) *)
StorageGet(s, path) == IF path \in DOMAIN s THEN [bytes |-> s[path]] ELSE Null

EndsWith(str, suffix) ==
    Len(str) >= Len(suffix)
        /\ SubSeq(str, Len(str) - Len(suffix) + 1, Len(str)) = suffix

(* lines 126-128 *)
ResponseType(target) ==
    IF EndsWith(target, <<".", "o", "u", "t">>) \/ EndsWith(target, <<".", "a", "n", "s">>)
    THEN "text/plain" ELSE "lookup"

ErrNotFound == [class |-> "NotFoundError", msg |-> "uid"]
ErrAccessDenied == [class |-> "ForbiddenError", msg |-> "Access denied"]
ErrLinkExpired == [class |-> "ForbiddenError", msg |-> "Link expired"]
ErrInvalidSecret == [class |-> "ForbiddenError", msg |-> "Invalid secret"]

MayDownload_DroppedNot(requester, uid, targetPrivs) ==
    requester = uid \/ ~HasPriv(targetPrivs, PRIV_CREATE_FILE)

(* line 100, negated: the requester is the owner or the owner has PRIV_CREATE_FILE *)
MayDownload(requester, uid, targetPrivs) ==
    requester = uid \/ HasPriv(targetPrivs, PRIV_CREATE_FILE)

(* FSDownloadHandler.get, lines 97-110 *)
FSDownloadHandlerGet(requester, uid, filename, noDisposition) ==
    LET target == StoragePath(uid, filename)
        file == StorageGetMeta(store, target)
        link == SignDownloadLink(target, IF noDisposition THEN Empty ELSE filename, now)
        Response(error, redirect) ==
            [handler |-> "download", requester |-> requester, uid |-> uid,
             filename |-> filename, error |-> error, redirect |-> redirect]
    IN  IF uid \notin DOMAIN users
        THEN /\ resp' = Response(ErrNotFound, NoLink)
             /\ UNCHANGED <<oplog, links>>
        ELSE IF ~MayDownload(requester, uid, users[uid])
        THEN /\ resp' = Response(ErrAccessDenied, NoLink)
             /\ UNCHANGED <<oplog, links>>
        ELSE /\ oplog' = oplog \cup
                    {[type |-> "download.file.user", target |-> target,
                      size |-> IF file = Null THEN 0 ELSE file.size]}
             /\ links' = links \cup {link}
             /\ resp' = Response(NoError, link)

(* encodeRFC5987ValueChars, kept symbolic *)
EncodeRFC5987ValueChars(str) == <<"rfc5987", ":">> \o str

(* StorageHandler.get, lines 121-129, on a request made with a fingerprint
   that was minted for mintedFor and then, if altered, changed in one place *)
StorageHandlerGet(target, filename, expire, mintedFor, altered) ==
    LET secret == IF altered THEN Alter(Mint(mintedFor[1], mintedFor[2]))
                  ELSE Mint(mintedFor[1], mintedFor[2])
        Response(error, body, type, disposition) ==
            [handler |-> "storage", target |-> target, expire |-> expire,
             secret |-> secret, at |-> now, mintedFor |-> mintedFor,
             altered |-> altered, error |-> error, body |-> body,
             type |-> type, disposition |-> disposition]
    IN  IF Expired(expire, now)
        THEN /\ resp' = Response(ErrLinkExpired, Null, "", Empty)
             /\ UNCHANGED fetched
        ELSE IF secret # Expected(target, expire)
        THEN /\ resp' = Response(ErrInvalidSecret, Null, "", Empty)
             /\ UNCHANGED fetched
        ELSE /\ fetched' = fetched \cup {target}
             /\ resp' = Response(NoError, StorageGet(store, target),
                                 ResponseType(target),
                                 IF filename = Empty THEN Empty
                                 ELSE EncodeRFC5987ValueChars(filename))

(* Date.now() advances *)
Tick ==
    /\ now < MaxTime
    /\ now' = now + 1

----------------------------------------------------------------------------
(* Properties of the upload and delete workflows *)

Unlimited == HasPriv(priv, PRIV_UNLIMITED_QUOTA)
MayCreate == HasPriv(priv, PRIV_CREATE_FILE)

CheckErrors ==
    {ErrPrivilege, ErrFileLimit, ErrNoFile, ErrSizeLimit, ErrBadFilename, ErrFileExists}

(* request r is an upload that lines 58-71 rejected *)
Rejected(r) ==
    req[r].op = "upload" /\ req[r].pc = "done" /\ req[r].error \in CheckErrors

(* request r is an upload just past lines 58-71: req[r].files is still the
   file list the request was given *)
Checked(r) == Rejected(r) \/ (req[r].op = "upload" /\ req[r].pc = "put")

NoDuplicateNames(files) ==
    \A i, j \in 1 .. Len(files) : files[i].name = files[j].name => i = j

(* C1: for a principal without unlimited quota, as long as storage reported
   to each upload the size that upload sent, the persisted ledger holds at
   most countLimit records and at most byteLimit bytes, in every state of
   every interleaving of uploads and deletes. *)
C1_QuotaInvariant ==
    (~Unlimited /\ ~sizeSkew) =>
        /\ Len(ledger) <= countLimit
        /\ SumSizes(ledger) <= byteLimit

C1_Witness ==
    /\ ~Unlimited /\ ~sizeSkew
    /\ Len(ledger) = 2 /\ countLimit = 2
    /\ SumSizes(ledger) + 1 = byteLimit
    /\ \E r \in Reqs : req[r].op = "upload" /\ req[r].pc = "done"
                       /\ req[r].error = NoError /\ req[r].files = ledger

C3_Claim ==
    \A r \in Reqs :
        ( /\ Checked(r) /\ MayCreate /\ ~Unlimited /\ req[r].hasFile
          /\ Len(req[r].files) < countLimit
          /\ ~Includes(req[r].filename, <<"/">>)
          /\ ~Includes(req[r].filename, <<".", ".">>)
          /\ req[r].filename \notin Names(req[r].files) ) =>
            /\ SumSizes(req[r].files) + req[r].size = byteLimit
                    => req[r].error = NoError
            /\ SumSizes(req[r].files) + req[r].size = byteLimit + 1
                    => req[r].error = ErrSizeLimit

(* C4 as stated: without unlimited quota and with the count at or over the
   limit, every upload is rejected with the file-limit error. *)
C4_Original ==
    \A r \in Reqs :
        (Checked(r) /\ ~Unlimited /\ Len(req[r].files) >= countLimit)
            => req[r].error = ErrFileLimit

(* C4, amended: for a principal holding the create-file privilege and no
   unlimited quota, every upload made with the count at or over the limit
   is rejected with the file-limit error whatever the size of the file or
   whether there is one; an accepted zero-length upload adds one record. *)
C4_CountLimit ==
    /\ \A r \in Reqs :
        (Checked(r) /\ MayCreate /\ ~Unlimited /\ Len(req[r].files) >= countLimit)
            => req[r].error = ErrFileLimit
    /\ (track.stage = "uploaded" /\ req["r1"].size = 0)
            => Len(ledger) = Len(track.before) + 1

C4_Witness ==
    /\ Rejected("r1") /\ req["r1"].error = ErrFileLimit
    /\ req["r1"].hasFile /\ req["r1"].size = 0
    /\ countLimit > 0 /\ Len(ledger) = countLimit

(* the name part of a storage path user/<uid>/<name> *)
PathName(path) == SubSeq(path, 5, Len(path))

(* C5: an upload whose filename contains '/' or '..' is rejected at once,
   whatever the count, the aggregate size and the privileges; no object is
   ever stored under such a name and no record ever carries one. *)
C5_BadFilenameRejected ==
    /\ \A r \in Reqs :
        (req[r].op = "upload" /\ SlashOrDotDot(req[r].filename))
            => req[r].pc = "done" /\ req[r].error \in CheckErrors
    /\ \A p \in DOMAIN store : ~SlashOrDotDot(PathName(p))
    /\ \A i \in 1 .. Len(ledger) : ~SlashOrDotDot(ledger[i].name)

C5_Witness ==
    /\ Unlimited /\ Len(ledger) > countLimit
    /\ Rejected("r1") /\ req["r1"].error = ErrBadFilename
    /\ Includes(req["r1"].filename, <<".", ".">>)

(* C6: an accepted upload directly followed by a delete of exactly the
   uploaded name, nothing else running, leaves the ledger as it was before
   the upload. *)
C6_UploadThenDelete == track.stage = "deleted" => ledger = track.before

C6_Witness ==
    /\ track.stage = "deleted" /\ track.before # << >>
    /\ ledger = track.before

(* C10: once the storage delete of a delete request has failed, the ledger
   write of that request still completes, and the ledger it leaves holds none
   of the named entries. *)
C10_LedgerRewritten ==
    \A r \in {"r1"} :
        (req[r].op = "delete" /\ req[r].del = "failed")
            ~> ( /\ req[r].op = "delete" /\ req[r].set = "done"
                 /\ Names(ledger) \cap Range(req[r].names) = {} )

C10_Witness ==
    /\ req["r1"].op = "delete" /\ req["r1"].del = "failed" /\ req["r1"].set = "done"
    /\ \E n \in Range(req["r1"].names) :
        /\ n \in Names(req["r1"].files)
        /\ n \notin Names(ledger)
        /\ StoragePath(Uid, n) \in DOMAIN store

(* C11: an upload by a principal holding the unlimited-quota and the
   create-file privilege is never rejected with the file-limit or the
   size-limit error, whatever the count, the aggregate size and the limits;
   with a file part, a filename containing '/' or '..' is still rejected as
   a bad filename and the name of an existing record as file exists. *)
C11_UnlimitedBypass ==
    \A r \in Reqs :
        (req[r].op = "upload" /\ Unlimited /\ MayCreate) =>
            /\ req[r].error \notin {ErrFileLimit, ErrSizeLimit}
            /\ (Checked(r) /\ req[r].hasFile) =>
                /\ SlashOrDotDot(req[r].filename) => req[r].error = ErrBadFilename
                /\ ( /\ ~SlashOrDotDot(req[r].filename)
                     /\ req[r].filename \in Names(req[r].files) )
                        => req[r].error = ErrFileExists

C11_Witness ==
    /\ Unlimited /\ MayCreate
    /\ req["r1"].op = "upload" /\ req["r1"].pc = "done" /\ req["r1"].error = NoError
    /\ ledger = req["r1"].files
    /\ countLimit > 0 /\ Len(ledger) > countLimit
    /\ byteLimit > 0 /\ SumSizes(ledger) > byteLimit

----------------------------------------------------------------------------
(* The download redirect, for any requester, owner and identity store *)

NameOut == <<"x", ".", "o", "u", "t">>
Uids == {1, 2}
DownloadNames == {NameA, NameOut}

InitFilesIdle ==
    /\ priv = {}
    /\ countLimit = 0
    /\ byteLimit = 0
    /\ ledger = << >>
    /\ req = [r \in Reqs |-> IdleReq]
    /\ sizeSkew = FALSE
    /\ track = NoTrack
    /\ started = 0
    /\ capacity = NoCapacity
    /\ effects = << >>

(* objects already in storage *)
StoredObjects ==
    StoragePut(StoragePut(NoObjects, StoragePath(1, NameA), 1), StoragePath(2, NameOut), 0)

DownloadInit ==
    /\ InitFilesIdle
    /\ store = StoredObjects
    /\ now = 0
    /\ \E existing \in SUBSET Uids :
            users \in [existing -> {{}, {PRIV_CREATE_FILE}}]
    /\ oplog = {}
    /\ links = {}
    /\ fetched = {}
    /\ resp = NoResp
    /\ expiredLink = NoLink

DownloadNext ==
    \E requester \in Uids, uid \in Uids, filename \in DownloadNames,
       noDisposition \in BOOLEAN :
        /\ FSDownloadHandlerGet(requester, uid, filename, noDisposition)
        /\ UNCHANGED <<now, users, fetched, expiredLink>>
        /\ UNCHANGED fileVars

DownloadSpec == DownloadInit /\ [][DownloadNext]_vars

----------------------------------------------------------------------------
(* The signed-link endpoint, for any presented link and any time *)

LinkTargets == {StoragePath(1, NameA), StoragePath(2, NameOut)}
Expiries == 0 .. MaxTime

LinkInit ==
    /\ InitFilesIdle
    /\ store = StoredObjects
    /\ now = 0
    /\ users = [u \in {} |-> {}]
    /\ oplog = {}
    /\ links = {}
    /\ fetched = {}
    /\ resp = NoResp
    /\ expiredLink = NoLink

(* the fingerprints a client may send with (target, expire): one minted for
   any target and expiry, or the one minted for this pair with a character
   changed *)
Presentable(target, expire) ==
    {<<pair, FALSE>> : pair \in LinkTargets \X Expiries}
        \cup {<<(<<target, expire>>), TRUE>>}

PresentedLink == [target |-> resp.target, filename |-> Empty,
                  expire |-> resp.expire, secret |-> resp.secret]

LinkNext ==
    \/ /\ Tick
       /\ UNCHANGED <<users, oplog, links, fetched, resp, expiredLink>>
       /\ UNCHANGED fileVars
    \/ \E target \in LinkTargets, filename \in {Empty, NameA}, expire \in Expiries :
       \E presented \in Presentable(target, expire) :
        /\ StorageHandlerGet(target, filename, expire, presented[1], presented[2])
        /\ \/ UNCHANGED expiredLink
           \/ /\ resp'.error = ErrLinkExpired
              /\ expiredLink = NoLink
              /\ expiredLink' = PresentedLink'
        /\ UNCHANGED <<now, users, oplog, links>>
        /\ UNCHANGED fileVars

LinkSpec == LinkInit /\ [][LinkNext]_vars

----------------------------------------------------------------------------
(* Properties of the signed-link endpoint and the download redirect *)

StorageResponse == resp.handler = "storage"
DownloadResponse == resp.handler = "download"

(* C7: a request whose link is not expired is served exactly when its
   fingerprint is, unchanged, the one minted for the very target and expiry
   it names; any other request is refused as an invalid secret and reads
   nothing from storage. *)
C7_LinkVerification ==
    (StorageResponse /\ resp.expire >= resp.at) =>
        /\ resp.error = NoError
              <=> (resp.mintedFor = <<resp.target, resp.expire>> /\ ~resp.altered)
        /\ resp.error # NoError => resp.error = ErrInvalidSecret /\ resp.body = Null
        /\ resp.error = NoError =>
              /\ resp.body = StorageGet(store, resp.target)
              /\ resp.target \in fetched

C7_Witness ==
    /\ StorageResponse /\ resp.error = NoError
    /\ resp.at > 0 /\ resp.expire = resp.at
    /\ resp.secret = Mint(resp.target, resp.expire)
    /\ resp.body = [bytes |-> 1]

(* C8: a link whose expiry is before the current time is refused as expired
   even with the correct fingerprint; a link once refused as expired is
   never served afterwards; a refused request reads nothing from storage. *)
C8_ExpiredRejected ==
    /\ [](StorageResponse /\ resp.expire < resp.at
            => resp.error = ErrLinkExpired /\ resp.body = Null)
    /\ [](StorageResponse /\ resp.error = NoError => PresentedLink # expiredLink)
    /\ [][(resp'.handler = "storage" /\ resp'.error # NoError)
            => fetched' = fetched]_vars
    /\ [][now' >= now]_vars

C8_Witness ==
    /\ StorageResponse /\ resp.error = ErrLinkExpired
    /\ resp.mintedFor = <<resp.target, resp.expire>> /\ ~resp.altered
    /\ expiredLink = PresentedLink
    /\ resp.at > resp.expire + 1
    /\ resp.target \notin fetched

Authorized(requester, uid) ==
    /\ uid \in DOMAIN users
    /\ requester = uid \/ PRIV_CREATE_FILE \in users[uid]

(* C9: the download redirect hands out a link only when the owner exists and
   the requester is the owner or the owner holds PRIV_CREATE_FILE; an
   unknown owner gives not-found, another principal's file whose owner lacks
   the privilege gives forbidden, and a request that fails records no audit
   event and mints no link. *)
C9_DownloadAuthorization ==
    /\ [](DownloadResponse =>
            /\ resp.uid \notin DOMAIN users => resp.error = ErrNotFound
            /\ ( /\ resp.uid \in DOMAIN users
                 /\ resp.requester # resp.uid
                 /\ PRIV_CREATE_FILE \notin users[resp.uid] )
                    => resp.error = ErrAccessDenied
            /\ resp.error = NoError =>
                    /\ Authorized(resp.requester, resp.uid)
                    /\ resp.redirect \in links
            /\ resp.error # NoError => resp.redirect = NoLink)
    /\ [][(resp'.handler = "download" /\ resp'.error # NoError)
            => (oplog' = oplog /\ links' = links)]_vars
    /\ [][(links' # links \/ oplog' # oplog)
            => (resp'.error = NoError /\ Authorized(resp'.requester, resp'.uid))]_vars

C9_Witness ==
    /\ DownloadResponse /\ resp.error = ErrAccessDenied
    /\ resp.requester # resp.uid
    /\ resp.uid \in DOMAIN users /\ PRIV_CREATE_FILE \notin users[resp.uid]
    /\ links # {} /\ \A l \in links : l.target # StoragePath(resp.uid, resp.filename)

(* C12 as stated: a request refused because its link is expired and one
   refused because its fingerprint does not match end in the same outcome,
   the same error class with nothing in it that tells the two apart: any two
   refusals that follow one another carry the same error. *)
C12_SameForbiddenOutcome ==
    [][(/\ resp.handler = "storage" /\ resp.error # NoError
        /\ resp'.handler = "storage" /\ resp'.error # NoError)
            => resp'.error = resp.error]_vars

(* what a delete of `names` leaves of the file list `full` *)
LeftBy(files, full, names) ==
    /\ Names(files) = Names(full) \ Range(names)
    /\ Len(files) = Len(full) - Cardinality(Names(full) \cap Range(names))
    /\ SumSizes(files) <= SumSizes(full)

(* C13: the quota checks of an upload are made on the ledger as the
   operations before it left it.  After an upload that only the count check
   refused and a delete made right after it, the ledger is the refused
   upload's ledger without the named records; the same upload made again is
   refused for count only if the count is still at the limit, passes the
   checks when the count and the sum are now below the limits, and then
   leaves the remaining records followed by the new one. *)
C13_DeleteRestoresCapacity ==
    /\ capacity.stage = "freed" => LeftBy(ledger, capacity.full, capacity.names)
    /\ capacity.stage = "again" =>
        /\ LeftBy(capacity.base, capacity.full, capacity.names)
        /\ Len(capacity.base) >= countLimit => req["r1"].error = ErrFileLimit
        /\ ( /\ Len(capacity.base) < countLimit
             /\ SumSizes(capacity.base) + req["r1"].size < byteLimit )
                => req["r1"].error \notin CheckErrors
        /\ (req["r1"].pc = "done" /\ req["r1"].error = NoError) =>
                ledger = Append(capacity.base,
                                [_id |-> capacity.name, name |-> capacity.name,
                                 size |-> req["r1"].size])

C13_Witness ==
    /\ capacity.stage = "again"
    /\ countLimit = 2 /\ byteLimit = 3
    /\ capacity.full = <<FileRecord(NameA, [size |-> 1]), FileRecord(NameR, [size |-> 1])>>
    /\ capacity.names = <<NameA>> /\ capacity.name = NameC
    /\ req["r1"].pc = "done" /\ req["r1"].error = NoError
    /\ ledger = <<FileRecord(NameR, [size |-> 1]), FileRecord(NameC, [size |-> 1])>>

(* C14 as stated: the rejections of an upload come in the order privilege,
   count quota, invalid filename, name conflict, size quota: an upload with
   a file part, made below the count limit by a principal that may create
   files, is rejected as a bad filename when its name contains '/' or '..'
   and as file exists when its name is that of an existing record, whatever
   its prospective aggregate size. *)
C14_StatedOrder ==
    \A r \in Reqs :
        ( /\ Checked(r) /\ MayCreate /\ req[r].hasFile
          /\ Unlimited \/ Len(req[r].files) < countLimit ) =>
            /\ SlashOrDotDot(req[r].filename) => req[r].error = ErrBadFilename
            /\ ( /\ ~SlashOrDotDot(req[r].filename)
                 /\ req[r].filename \in Names(req[r].files) )
                    => req[r].error = ErrFileExists

(* request r is an upload that has ended in an error *)
Failed(r) == req[r].op = "upload" /\ req[r].pc = "done" /\ req[r].error # NoError

(* C15: an upload that ends in an error leaves the persisted ledger as it
   was when the request came in.  No step of such a request writes the
   ledger; a rejection by one of the checks is the first step of its
   request and writes nothing to storage; a failed metadata retrieval ends
   the request with an internal error, the new name in no record and the
   object that was put still in storage. *)
C15_FailedUploadKeepsLedger ==
    /\ [](\A r \in {"r1"} : Failed(r) =>
            /\ ledger = req[r].files
            /\ req[r].error = ErrUploadFailed =>
                /\ req[r].error.class = "Error"
                /\ req[r].filename \notin Names(ledger)
                /\ StoragePath(Uid, req[r].filename) \in DOMAIN store)
    /\ [][\A r \in {"r1"} : (Failed(r)' /\ ~Failed(r)) => ledger' = ledger]_vars
    /\ [][\A r \in {"r1"} : (Rejected(r)' /\ req'[r] # req[r]) =>
            /\ req[r].pc = "done"
            /\ ledger' = ledger /\ store' = store]_vars

C15_Witness ==
    /\ Failed("r1") /\ req["r1"].error = ErrUploadFailed
    /\ ledger # << >> /\ ledger = req["r1"].files
    /\ req["r1"].filename \notin Names(ledger)
    /\ StoragePath(Uid, req["r1"].filename) \in DOMAIN store

(* request r is an upload that has ended without an error *)
Succeeded(r) == req[r].op = "upload" /\ req[r].pc = "done" /\ req[r].error = NoError

(* C16: an upload that succeeds has made exactly two writes, first one
   storage put that left the file at user/<id>/<filename>, then one ledger
   write; while the put or the metadata retrieval is still to come the
   ledger has not been written; the ledger written is the records the
   principal had, unchanged and in their order, followed by one record with
   the upload's name and the size storage reports for the object. *)
C16_OnePutThenOneLedgerWrite ==
    /\ (req["r1"].op = "upload" /\ req["r1"].pc \in {"put", "getMeta", "setById"}) =>
            /\ \A k \in 1 .. Len(effects) : effects[k].call # "user.setById"
            /\ ledger = track.before
    /\ Succeeded("r1") =>
        LET path == StoragePath(Uid, req["r1"].filename)
        IN  /\ Len(effects) = 2
            /\ effects[1].call = "storage.put"
            /\ path \in DOMAIN effects[1].store
            /\ effects[1].store[path] = req["r1"].size
            /\ path = <<"user", "/", "1", "/">> \o req["r1"].filename
            /\ effects[2].call = "user.setById"
            /\ effects[2].files =
                    Append(track.before,
                           [_id |-> req["r1"].filename, name |-> req["r1"].filename,
                            size |-> StorageGetMeta(effects[1].store, path).size])
            /\ ledger = effects[2].files

C16_Witness ==
    /\ Succeeded("r1")
    /\ track.before # << >>
    /\ Len(effects) = 2
    /\ ledger = Append(track.before, FileRecord(NameR, [size |-> 1]))

(* the file list request r was given when it came in *)
ReadBy(r) ==
    IF Succeeded(r) THEN SubSeq(req[r].files, 1, Len(req[r].files) - 1)
    ELSE req[r].files

(* request r is a delete whose ledger write has completed *)
Deleted(r) == req[r].op = "delete" /\ req[r].pc = "done"

(* the file list request r wrote to the ledger *)
WrittenBy(r) ==
    IF Succeeded(r) THEN req[r].files ELSE FilterFiles(req[r].files, req[r].names)

(* C17: the last writer wins.  When two requests of the principal that were
   given the same file list have both ended, uploads with success, the
   ledger is what one of them wrote: of two uploads of different names it
   holds exactly one of the two new records, and of an upload and a delete
   it either lacks the uploaded record or still holds every record the
   delete named. *)
C17_LastWriterWins ==
    ( /\ Succeeded("r1") \/ Deleted("r1")
      /\ Succeeded("r2") \/ Deleted("r2")
      /\ ReadBy("r1") = ReadBy("r2") ) =>
        /\ ledger \in {WrittenBy("r1"), WrittenBy("r2")}
        /\ ( /\ Succeeded("r1") /\ Succeeded("r2")
             /\ req["r1"].filename # req["r2"].filename ) =>
                /\ Len(ledger) = Len(ReadBy("r1")) + 1
                /\ (req["r1"].filename \in Names(ledger))
                        # (req["r2"].filename \in Names(ledger))
        /\ \A u, d \in Reqs : (Succeeded(u) /\ Deleted(d)) =>
                \/ req[u].filename \notin Names(ledger)
                \/ Names(ReadBy(d)) \cap Range(req[d].names) \subseteq Names(ledger)

C17_Witness ==
    /\ Succeeded("r1") /\ Succeeded("r2")
    /\ req["r1"].filename # req["r2"].filename
    /\ ReadBy("r1") = ReadBy("r2")
    /\ Len(ledger) = Len(ReadBy("r1")) + 1
    /\ \E r \in Reqs :
        /\ req[r].filename \notin Names(ledger)
        /\ StoragePath(Uid, req[r].filename) \in DOMAIN store

C17_WitnessDelete ==
    \E u, d \in Reqs :
        /\ Succeeded(u) /\ Deleted(d) /\ req[d].del = "ok"
        /\ ReadBy(u) = ReadBy(d) /\ ReadBy(d) # << >>
        /\ Range(req[d].names) \subseteq Names(ReadBy(d))
        /\ Range(req[d].names) \subseteq Names(ledger)
        /\ req[u].filename \in Names(ledger)

(* the records of `files`, in their order, whose name is not in `named` *)
RECURSIVE Remaining(_, _)
Remaining(files, named) ==
    IF files = << >> THEN << >>
    ELSE IF Head(files).name \in named THEN Remaining(Tail(files), named)
    ELSE <<Head(files)>> \o Remaining(Tail(files), named)

(* C18: once the ledger write of a delete has completed, the ledger is the
   file list the request was given without the records it names, the other
   records unchanged and in their order; names of no record change nothing;
   the delete ends with no error other than a storage failure, whatever the
   quotas; the count and the aggregate size are not above what they were;
   and a delete that repeats the one before it leaves the ledger as it
   found it. *)
C18_DeleteRemovesNamed ==
    (req["r1"].op = "delete" /\ req["r1"].set = "done") =>
        /\ ledger = Remaining(req["r1"].files, Range(req["r1"].names))
        /\ Names(req["r1"].files) \cap Range(req["r1"].names) = {}
                => ledger = req["r1"].files
        /\ req["r1"].error \in {NoError, ErrStorage}
        /\ Len(ledger) <= Len(req["r1"].files)
        /\ SumSizes(ledger) <= SumSizes(req["r1"].files)
        /\ track.stage = "repeating" => ledger = track.before

C18_Witness ==
    /\ req["r1"].op = "delete" /\ req["r1"].set = "done"
    /\ Len(req["r1"].files) = 3
    /\ req["r1"].names = <<NameR>>
    /\ req["r1"].files[2].name = NameR
    /\ ledger = <<req["r1"].files[1], req["r1"].files[3]>>
    /\ Len(ledger) > countLimit /\ SumSizes(ledger) > byteLimit

C18_WitnessRepeat ==
    /\ req["r1"].op = "delete" /\ req["r1"].set = "done"
    /\ track.stage = "repeating" /\ track.before # << >>
    /\ req["r1"].names = <<NameA>>
    /\ StoragePath(Uid, NameA) \notin DOMAIN store
    /\ ledger = track.before

(* C19 as stated: every path a delete request of the principal hands to
   storage.del is user/<id>/<name> with <name> one filename that contains
   neither '/' nor '..'. *)
C19_DeleteStaysInNamespace ==
    \A r \in Reqs : req[r].op = "delete" =>
        \A p \in Range(DeletePaths(Uid, req[r].names)) :
            /\ SubSeq(p, 1, 4) = <<"user", "/", "1", "/">>
            /\ ~SlashOrDotDot(PathName(p))

(* the storage paths of the records of `files` *)
PathsOf(files) == {StoragePath(Uid, n) : n \in Names(files)}

(* C20: with requests one at a time and every storage call doing what it
   was asked, whenever no request is running the objects in storage under
   user/<id>/ are exactly those of the names in the persisted ledger. *)
C20_LedgerMatchesStore ==
    req["r1"].pc = "done" => DOMAIN store = PathsOf(ledger)

C20_Witness ==
    /\ req["r1"].op = "delete" /\ req["r1"].pc = "done"
    /\ Names(req["r1"].files) # Names(ledger)
    /\ ledger # << >>
    /\ DOMAIN store = PathsOf(ledger)

====
